---- MODULE Spec2Model ----
(***************************************************************************)
(* Order processing service: src/src/order_service.py and                  *)
(* src/src/balance_service.py.                                             *)
(*                                                                         *)
(* Request handlers run on a pool of threads that share the module-level   *)
(* dictionaries _customer_balances and _daily_stats.  No handler takes a   *)
(* lock, so a thread can be preempted between any two accesses of shared   *)
(* state; each action below is one such access together with the local     *)
(* computation that follows it.  Amounts are whole numbers.                *)
(***************************************************************************)
EXTENDS Integers, Sequences, FiniteSets, TLC

(* ---------------------------- bounds ----------------------------------- *)
NumWorkers == 2      \* threads serving POST /orders concurrently
MaxOrders == 2       \* orders accepted between two resets
MaxBatch == 3        \* longest list given to POST /orders/batch

(* ------------------------ program constants ---------------------------- *)
max_retries == 3

Workers == 1 .. NumWorkers
\* The thread that serves the requests of the sequential specification.
SeqWorker == CHOOSE w \in Workers : \A v \in Workers : w <= v

SeedBalances == (1 :> 500) @@ (2 :> 1000) @@ (3 :> 250) @@ (4 :> 750) @@ (5 :> 100)

ConnectionErrorText == "Balance service temporarily unavailable"

(* ------------------------------ inputs --------------------------------- *)
\* Customer 1 (500) and customer 5 (100) are seeded, customer 6 is unknown.
OrderCustomers == {1, 5, 6}
BatchCustomers == {5}
BatchAmounts == {0, 50, 100}

OrderRequest(i, c, a, p) == [id |-> i, customer_id |-> c, amount |-> a, priority |-> p]

\* Orders given to POST /orders: <<customer_id, amount>>.
SingleOrders ==
    {OrderRequest(1, ca[1], ca[2], FALSE) :
        ca \in {<<1, 50>>, <<1, 10000>>, <<5, 0>>, <<5, 100>>, <<6, 50>>}}

\* Orders of unequal positive amounts for one customer, 5 (balance 100).
UnequalOrders == {OrderRequest(1, 5, a, FALSE) : a \in {50, 100}}

BatchOrdersAt(i) ==
    {OrderRequest(i, c, a, p) : c \in BatchCustomers, a \in BatchAmounts, p \in BOOLEAN}

\* Lists of 1..MaxBatch orders; the caller numbers them 1, 2, ... as the tests do.
BatchRequests ==
    UNION {{s \in [1 .. n -> UNION {BatchOrdersAt(i) : i \in 1 .. n}] :
                \A i \in 1 .. n : s[i].id = i} : n \in 1 .. MaxBatch}

(* --------------------------- Optional values --------------------------- *)
None == <<>>
Some(v) == <<v>>

(* ----------------------------- responses ------------------------------- *)
Message(fmt, args, cause) == [fmt |-> fmt, args |-> args, cause |-> cause]

OrderResponse(order, status, message, new_balance) ==
    [id |-> order.id, status |-> status, priority |-> order.priority,
     message |-> message, new_balance |-> new_balance]

InvalidAmountResponse(order) ==
    OrderResponse(order, "error", Some(Message("Invalid order amount", <<>>, "")), None)

PreCheckResponse(order, current_balance) ==
    OrderResponse(order, "error",
        Some(Message("Insufficient balance: {} < {}", <<current_balance, order.amount>>, "")),
        None)

OkResponse(order, new_balance) == OrderResponse(order, "ok", None, Some(new_balance))

DeductErrorResponse(order, error) ==
    OrderResponse(order, "error", Some(Message(error, <<>>, "")), None)

UnavailableResponse(order, last_error) ==
    OrderResponse(order, "error",
        Some(Message("Balance service unavailable after {} retries: {}",
                     <<max_retries>>, last_error)),
        None)

(* --------------------------- balance service --------------------------- *)
\* _customer_balances.get(customer_id, 0.0)
get_balance(b, customer_id) == IF customer_id \in DOMAIN b THEN b[customer_id] ELSE 0

\* _customer_balances[customer_id] = new_balance
SetBalance(b, customer_id, new_balance) ==
    [c \in DOMAIN b \cup {customer_id} |-> IF c = customer_id THEN new_balance ELSE b[c]]

\* Faulty variant: the balance is never compared with the amount.
InsufficientFundsIgnored(current_balance, amount) == FALSE

\* if current_balance < amount
InsufficientFunds(current_balance, amount) == current_balance < amount

(* ---------------------------- order service ---------------------------- *)
\* Faulty variant: only negative amounts are rejected.
InvalidAmountNegativeOnly(amount) == amount < 0

\* if order.amount <= 0
InvalidAmount(amount) == amount <= 0

\* Faulty variant: the pre-check lets every order through.
PreCheckSkipped(current_balance, amount) == FALSE

\* if current_balance < order.amount
PreCheckFails(current_balance, amount) == current_balance < amount

\* key=lambda x: x.priority; False sorts as 0 and True as 1
PriorityKey(r) == IF r.priority THEN 1 ELSE 0

\* Faulty variant: r goes before the elements of equal key (an unstable sort).
RECURSIVE InsertBeforeEqual(_, _)
InsertBeforeEqual(sortedSeq, r) ==
    IF sortedSeq = <<>> THEN <<r>>
    ELSE IF PriorityKey(sortedSeq[Len(sortedSeq)]) < PriorityKey(r)
         THEN Append(sortedSeq, r)
         ELSE Append(InsertBeforeEqual(SubSeq(sortedSeq, 1, Len(sortedSeq) - 1), r),
                     sortedSeq[Len(sortedSeq)])

\* Insert r into a sorted list after every element whose key is not greater.
RECURSIVE InsertByKey(_, _)
InsertByKey(sortedSeq, r) ==
    IF sortedSeq = <<>> THEN <<r>>
    ELSE IF PriorityKey(sortedSeq[Len(sortedSeq)]) <= PriorityKey(r)
         THEN Append(sortedSeq, r)
         ELSE Append(InsertByKey(SubSeq(sortedSeq, 1, Len(sortedSeq) - 1), r),
                     sortedSeq[Len(sortedSeq)])

\* sorted(results, key=lambda x: x.priority): ascending and stable
RECURSIVE SortedByPriority(_)
SortedByPriority(results) ==
    IF results = <<>> THEN <<>>
    ELSE InsertByKey(SortedByPriority(SubSeq(results, 1, Len(results) - 1)),
                     results[Len(results)])

(* ------------------------------- state --------------------------------- *)
VARIABLES
    balances,     \* _customer_balances
    stats,        \* _daily_stats
    pc,           \* where each worker is in its handler
    kind,         \* "single" (create_order) or "batch" (create_orders_batch)
    pending,      \* orders of the request not yet processed
    results,      \* responses built so far; the returned value once pc = "done"
    local,        \* live local variables of _process_single_order and its callees
    hist,         \* per worker, what was done for the order it processes or returned
    okCount,      \* responses with status ok since the last reset
    okSum,        \* per customer, sum of the amounts of those responses
    started,      \* orders accepted since the last reset
    deducted,     \* deduct_balance calls that returned success since the last reset
    seen,         \* per get_stats call in progress, the stats of the states between
                  \* whole updates that the call has lived through
    was_reset     \* reset_state was the last request served

vars == <<balances, stats, pc, kind, pending, results, local, hist, okCount, okSum,
          started, deducted, seen, was_reset>>

NoLocal ==
    [attempt |-> 0, last_error |-> "", current_balance |-> 0, new_balance |-> 0,
     current_revenue |-> 0, current_count |-> 0]

NoOrder == OrderRequest(0, 0, 0, FALSE)

NoHist ==
    [order |-> NoOrder, deduct_calls |-> 0, transient_failures |-> 0, deduct_ok |-> 0,
     balance_writes |-> 0, stats_calls |-> 0, start_balance |-> None]

ZeroStats == [total_revenue |-> 0, order_count |-> 0]

NoDeduction == [count |-> 0, amount |-> 0]

\* "idle": no request yet; "done": the last request has returned results[w].
InFlight(w) == pc[w] \notin {"idle", "done"}
Quiescent == \A w \in Workers : ~InFlight(w)

order(w) == Head(pending[w])

AllCustomers == DOMAIN SeedBalances \cup OrderCustomers \cup BatchCustomers

\* The record kept for an order from the moment its processing is due.
StartHist(o, start_balance) ==
    [NoHist EXCEPT !.order = o, !.start_balance = start_balance]

Init ==
    /\ balances = SeedBalances
    /\ stats = ZeroStats
    /\ pc = [w \in Workers |-> "idle"]
    /\ kind = [w \in Workers |-> "single"]
    /\ pending = [w \in Workers |-> <<>>]
    /\ results = [w \in Workers |-> <<>>]
    /\ local = [w \in Workers |-> NoLocal]
    /\ hist = [w \in Workers |-> NoHist]
    /\ okCount = 0
    /\ okSum = [c \in AllCustomers |-> 0]
    /\ started = 0
    /\ deducted = NoDeduction
    /\ was_reset = FALSE
    /\ seen = [w \in Workers |-> {}]

(* ------------------------- request acceptance -------------------------- *)
\* POST /orders: create_order(order) calls _process_single_order(order).
\* A thread that serves its requests one at a time, with no other thread
\* running, also notes the customer's balance at this moment.
CreateOrderFrom(w, orders, alone) ==
    /\ ~InFlight(w)
    /\ started < MaxOrders
    /\ \E o \in orders :
        /\ pending' = [pending EXCEPT ![w] = <<o>>]
        /\ hist' = [hist EXCEPT ![w] =
                      StartHist(o, IF alone THEN Some(get_balance(balances, o.customer_id))
                                            ELSE None)]
    /\ pc' = [pc EXCEPT ![w] = "validate"]
    /\ kind' = [kind EXCEPT ![w] = "single"]
    /\ results' = [results EXCEPT ![w] = <<>>]
    /\ started' = started + 1
    /\ UNCHANGED <<balances, stats, local, okCount, okSum>>
    /\ UNCHANGED <<deducted, seen>>
    /\ was_reset' = FALSE

CreateOrderNoting(w, alone) == CreateOrderFrom(w, SingleOrders, alone)

CreateOrder(w) == CreateOrderNoting(w, FALSE)

\* POST /orders with an order of one customer's orders of unequal amounts.
CreateUnequalOrder(w) == CreateOrderFrom(w, UnequalOrders, FALSE)

CreateOrderAlone(w) == Quiescent /\ CreateOrderNoting(w, TRUE)

\* POST /orders/batch: create_orders_batch(request) with results = [].
CreateOrdersBatch(w) ==
    /\ Quiescent
    /\ started = 0
    /\ \E orders \in BatchRequests :
        /\ pending' = [pending EXCEPT ![w] = orders]
        /\ hist' = [hist EXCEPT ![w] =
                      StartHist(Head(orders),
                                Some(get_balance(balances, Head(orders).customer_id)))]
        /\ started' = Len(orders)
    /\ pc' = [pc EXCEPT ![w] = "validate"]
    /\ kind' = [kind EXCEPT ![w] = "batch"]
    /\ results' = [results EXCEPT ![w] = <<>>]
    /\ UNCHANGED <<balances, stats, local, okCount, okSum>>
    /\ UNCHANGED <<deducted, seen>>
    /\ was_reset' = FALSE

(* ---------------------- _process_single_order -------------------------- *)
\* A return of _process_single_order: the response joins the results of the
\* request, and the handler goes on with the next order or returns.
Return(w, response) ==
    /\ results' = [results EXCEPT ![w] = Append(@, response)]
    /\ pending' = [pending EXCEPT ![w] = Tail(@)]
    /\ local' = [local EXCEPT ![w] = NoLocal]
    /\ pc' = [pc EXCEPT ![w] =
                IF Tail(pending[w]) # <<>> THEN "next"
                ELSE IF kind[w] = "batch" THEN "sort" ELSE "done"]
    /\ okCount' = IF response.status = "ok" THEN okCount + 1 ELSE okCount
    /\ okSum' = IF response.status = "ok"
                THEN [okSum EXCEPT ![order(w).customer_id] = @ + order(w).amount]
                ELSE okSum
    /\ UNCHANGED <<kind, started>>

\* for order in request.orders: the loop takes the next order of the batch.
NextOrder(w) ==
    /\ pc[w] = "next"
    /\ pc' = [pc EXCEPT ![w] = "validate"]
    /\ hist' = [hist EXCEPT ![w] =
                  StartHist(order(w), Some(get_balance(balances, order(w).customer_id)))]
    /\ UNCHANGED <<balances, stats, kind, pending, results, local, okCount, okSum, started>>
    /\ UNCHANGED <<deducted, seen, was_reset>>

\* if order.amount <= 0: return error "Invalid order amount"
Validate(w) ==
    /\ pc[w] = "validate"
    /\ IF InvalidAmount(order(w).amount)
       THEN Return(w, InvalidAmountResponse(order(w)))
       ELSE /\ pc' = [pc EXCEPT ![w] = "precheck"]
            /\ UNCHANGED <<kind, pending, results, local, okCount, okSum, started>>
    /\ UNCHANGED <<balances, stats, hist>>
    /\ UNCHANGED <<deducted, seen, was_reset>>

\* current_balance = get_balance(order.customer_id); if current_balance < order.amount: ...
PreCheck(w) ==
    /\ pc[w] = "precheck"
    /\ LET current_balance == get_balance(balances, order(w).customer_id) IN
       IF PreCheckFails(current_balance, order(w).amount)
       THEN Return(w, PreCheckResponse(order(w), current_balance))
       ELSE /\ pc' = [pc EXCEPT ![w] = "deduct"]
            /\ local' = [local EXCEPT ![w].attempt = 0]
            /\ UNCHANGED <<kind, pending, results, okCount, okSum, started>>
    /\ UNCHANGED <<balances, stats, hist>>
    /\ UNCHANGED <<deducted, seen, was_reset>>

(* --------------------------- deduct_balance ---------------------------- *)
\* Faulty variant of DeductFail: range(max_retries + 1), one attempt too many.
DeductFailOneMore(w) ==
    /\ pc[w] = "deduct"
    /\ hist' = [hist EXCEPT ![w].deduct_calls = @ + 1,
                            ![w].transient_failures = @ + 1]
    /\ IF local[w].attempt + 1 < max_retries + 1
       THEN /\ local' = [local EXCEPT ![w].attempt = @ + 1,
                                      ![w].last_error = ConnectionErrorText]
            /\ UNCHANGED <<pc, kind, pending, results, okCount, okSum, started>>
       ELSE Return(w, UnavailableResponse(order(w), ConnectionErrorText))
    /\ UNCHANGED <<balances, stats>>
    /\ UNCHANGED <<deducted, seen, was_reset>>

\* Faulty variant of DeductFail: the call deducts and then raises ConnectionError,
\* so the retry deducts again.
DeductFailAfterWrite(w) ==
    /\ pc[w] = "deduct"
    /\ LET current_balance == get_balance(balances, order(w).customer_id)
           wrote == current_balance >= order(w).amount
       IN  /\ balances' = IF wrote
                          THEN SetBalance(balances, order(w).customer_id,
                                          current_balance - order(w).amount)
                          ELSE balances
           /\ hist' = [hist EXCEPT ![w].deduct_calls = @ + 1,
                                   ![w].transient_failures = @ + 1,
                                   ![w].balance_writes = IF wrote THEN @ + 1 ELSE @]
    /\ IF local[w].attempt + 1 < max_retries
       THEN /\ local' = [local EXCEPT ![w].attempt = @ + 1,
                                      ![w].last_error = ConnectionErrorText]
            /\ UNCHANGED <<pc, kind, pending, results, okCount, okSum, started>>
       ELSE Return(w, UnavailableResponse(order(w), ConnectionErrorText))
    /\ UNCHANGED stats
    /\ UNCHANGED <<deducted, seen, was_reset>>

\* for attempt in range(max_retries): deduct_balance(...) sleeps and then raises
\* ConnectionError; except ConnectionError as e: last_error = str(e); continue.
\* After the last attempt the loop ends and the error response is returned.
DeductFail(w) ==
    /\ pc[w] = "deduct"
    /\ hist' = [hist EXCEPT ![w].deduct_calls = @ + 1,
                            ![w].transient_failures = @ + 1]
    /\ IF local[w].attempt + 1 < max_retries
       THEN /\ local' = [local EXCEPT ![w].attempt = @ + 1,
                                      ![w].last_error = ConnectionErrorText]
            /\ UNCHANGED <<pc, kind, pending, results, okCount, okSum, started>>
       ELSE Return(w, UnavailableResponse(order(w), ConnectionErrorText))
    /\ UNCHANGED <<balances, stats>>
    /\ UNCHANGED <<deducted, seen, was_reset>>

\* deduct_balance passes the failure injection and reads the balance:
\* current_balance = _customer_balances.get(customer_id, 0.0)
DeductRead(w) ==
    /\ pc[w] = "deduct"
    /\ hist' = [hist EXCEPT ![w].deduct_calls = @ + 1]
    /\ local' = [local EXCEPT ![w].current_balance =
                                  get_balance(balances, order(w).customer_id)]
    /\ pc' = [pc EXCEPT ![w] = "deduct_check"]
    /\ UNCHANGED <<balances, stats, kind, pending, results, okCount, okSum, started>>
    /\ UNCHANGED <<deducted, seen, was_reset>>

\* new_balance = current_balance - amount
NewBalance(current_balance, amount) == current_balance - amount

\* Faulty variant: "if result:", true of every BalanceResponse.
RecordsStatsAlways(success) == TRUE

\* if result.success: the caller records the order in the stats
RecordsStats(success) == success

\* deduct_balance compares and either returns success=False or writes the
\* new balance and returns success=True; the caller then branches on
\* result.success.
DeductCheck(w) ==
    /\ pc[w] = "deduct_check"
    /\ LET current_balance == local[w].current_balance
           amount == order(w).amount
           success == ~InsufficientFunds(current_balance, amount)
           new_balance == IF success THEN NewBalance(current_balance, amount)
                                     ELSE current_balance
       IN  /\ balances' = IF success
                          THEN SetBalance(balances, order(w).customer_id, new_balance)
                          ELSE balances
           /\ hist' = [hist EXCEPT
                         ![w].balance_writes = IF success THEN @ + 1 ELSE @,
                         ![w].deduct_ok = IF success THEN @ + 1 ELSE @]
           /\ IF RecordsStats(success)
              THEN /\ pc' = [pc EXCEPT ![w] = "stats_read_revenue"]
                   /\ local' = [local EXCEPT ![w].new_balance = new_balance]
                   /\ UNCHANGED <<kind, pending, results, okCount, okSum, started>>
              ELSE Return(w, DeductErrorResponse(order(w), "Insufficient balance"))
    /\ UNCHANGED stats
    /\ deducted' = IF ~InsufficientFunds(local[w].current_balance, order(w).amount)
                   THEN [count |-> deducted.count + 1,
                         amount |-> deducted.amount + order(w).amount]
                   ELSE deducted
    /\ UNCHANGED <<seen, was_reset>>

(* ------------------------- _update_daily_stats ------------------------- *)
\* Some thread has written total_revenue and not yet order_count.
HalfUpdated(pcs) == \E w \in Workers : pcs[w] = "stats_write_count"

\* current_revenue = _daily_stats["total_revenue"]
StatsReadRevenue(w) ==
    /\ pc[w] = "stats_read_revenue"
    /\ local' = [local EXCEPT ![w].current_revenue = stats.total_revenue]
    /\ hist' = [hist EXCEPT ![w].stats_calls = @ + 1]
    /\ pc' = [pc EXCEPT ![w] = "stats_read_count"]
    /\ UNCHANGED <<balances, stats, kind, pending, results, okCount, okSum, started>>
    /\ UNCHANGED <<deducted, seen, was_reset>>

\* current_count = _daily_stats["order_count"]; time.sleep(0.001)
StatsReadCount(w) ==
    /\ pc[w] = "stats_read_count"
    /\ local' = [local EXCEPT ![w].current_count = stats.order_count]
    /\ pc' = [pc EXCEPT ![w] = "stats_write_revenue"]
    /\ UNCHANGED <<balances, stats, kind, pending, results, hist, okCount, okSum, started>>
    /\ UNCHANGED <<deducted, seen, was_reset>>

\* _daily_stats["total_revenue"] = current_revenue + amount
StatsWriteRevenue(w) ==
    /\ pc[w] = "stats_write_revenue"
    /\ stats' = [stats EXCEPT !.total_revenue = local[w].current_revenue + order(w).amount]
    /\ pc' = [pc EXCEPT ![w] = "stats_write_count"]
    /\ UNCHANGED <<balances, kind, pending, results, local, hist, okCount, okSum, started>>
    /\ UNCHANGED <<deducted, seen, was_reset>>

\* _daily_stats["order_count"] = current_count + 1, then
\* return OrderResponse(status="ok", new_balance=result.new_balance)
StatsWriteCount(w) ==
    /\ pc[w] = "stats_write_count"
    /\ stats' = [stats EXCEPT !.order_count = local[w].current_count + 1]
    /\ Return(w, OkResponse(order(w), local[w].new_balance))
    /\ UNCHANGED <<balances, hist>>
    /\ seen' = [r \in Workers |->
                  IF pc[r] = "get_stats_count" /\ ~HalfUpdated(pc')
                  THEN seen[r] \cup {stats'} ELSE seen[r]]
    /\ UNCHANGED <<deducted, was_reset>>

(* ------------------------------ get_stats ------------------------------ *)
\* GET /stats: get_stats() builds StatsResponse(total_revenue=..., order_count=...);
\* the arguments are evaluated in order, total_revenue=_daily_stats["total_revenue"] first.
GetStatsReadRevenue(w) ==
    /\ ~InFlight(w)
    /\ pc' = [pc EXCEPT ![w] = "get_stats_count"]
    /\ kind' = [kind EXCEPT ![w] = "stats"]
    /\ results' = [results EXCEPT ![w] = <<>>]
    /\ hist' = [hist EXCEPT ![w] = NoHist]
    /\ local' = [local EXCEPT ![w].current_revenue = stats.total_revenue]
    /\ seen' = [seen EXCEPT ![w] = IF HalfUpdated(pc) THEN {} ELSE {stats}]
    /\ UNCHANGED <<balances, stats, pending, okCount, okSum, started, deducted>>
    /\ was_reset' = FALSE

\* order_count=_daily_stats["order_count"]; return the StatsResponse
GetStatsReadCount(w) ==
    /\ pc[w] = "get_stats_count"
    /\ results' = [results EXCEPT ![w] =
                     <<[total_revenue |-> local[w].current_revenue,
                        order_count |-> stats.order_count]>>]
    /\ local' = [local EXCEPT ![w] = NoLocal]
    /\ pc' = [pc EXCEPT ![w] = "done"]
    /\ seen' = [seen EXCEPT ![w] = {}]
    /\ UNCHANGED <<balances, stats, kind, pending, hist, okCount, okSum, started, deducted,
                   was_reset>>

(* --------------------------- end of a request -------------------------- *)
\* results = sorted(results, key=lambda x: x.priority); return results
SortResults(w) ==
    /\ pc[w] = "sort"
    /\ results' = [results EXCEPT ![w] = SortedByPriority(@)]
    /\ pc' = [pc EXCEPT ![w] = "done"]
    /\ UNCHANGED <<balances, stats, kind, pending, local, hist, okCount, okSum, started>>
    /\ UNCHANGED <<deducted, seen, was_reset>>

\* Faulty variant of reset_state: reset_balances() is not called.
ResetStatsOnly ==
    /\ Quiescent
    /\ started > 0
    /\ stats' = ZeroStats
    /\ okCount' = 0
    /\ okSum' = [c \in AllCustomers |-> 0]
    /\ started' = 0
    /\ pc' = [w \in Workers |-> "idle"]
    /\ kind' = [w \in Workers |-> "single"]
    /\ results' = [w \in Workers |-> <<>>]
    /\ hist' = [w \in Workers |-> NoHist]
    /\ UNCHANGED <<balances, pending, local>>
    /\ deducted' = NoDeduction
    /\ seen' = [w \in Workers |-> {}]
    /\ was_reset' = TRUE

\* POST /reset: reset_state() rebinds _daily_stats and calls reset_balances().
\* It is called between test runs, with no order in flight; the responses of
\* the finished requests are forgotten with it.
reset_state ==
    /\ Quiescent
    /\ started > 0
    /\ stats' = ZeroStats
    /\ balances' = SeedBalances
    /\ okCount' = 0
    /\ okSum' = [c \in AllCustomers |-> 0]
    /\ started' = 0
    /\ pc' = [w \in Workers |-> "idle"]
    /\ kind' = [w \in Workers |-> "single"]
    /\ results' = [w \in Workers |-> <<>>]
    /\ hist' = [w \in Workers |-> NoHist]
    /\ UNCHANGED <<pending, local>>
    /\ deducted' = NoDeduction
    /\ seen' = [w \in Workers |-> {}]
    /\ was_reset' = TRUE

(* --------------------------- specifications ---------------------------- *)
ProcessOrder(w) ==
    \/ Validate(w)
    \/ PreCheck(w)
    \/ DeductFail(w)
    \/ DeductRead(w)
    \/ DeductCheck(w)
    \/ StatsReadRevenue(w)
    \/ StatsReadCount(w)
    \/ StatsWriteRevenue(w)
    \/ StatsWriteCount(w)

\* Concurrent POST /orders requests on NumWorkers threads.
Next ==
    \/ \E w \in Workers : CreateOrder(w)
    \/ \E w \in Workers : ProcessOrder(w)
    \/ reset_state

Spec == Init /\ [][Next]_vars

\* Concurrent POST /orders requests for one customer, of unequal amounts.
NextUnequal ==
    \/ \E w \in Workers : CreateUnequalOrder(w)
    \/ \E w \in Workers : ProcessOrder(w)
    \/ reset_state

SpecUnequal == Init /\ [][NextUnequal]_vars

\* One request at a time, POST /orders or POST /orders/batch, on one thread.
NextSeq ==
    \/ CreateOrderAlone(SeqWorker)
    \/ CreateOrdersBatch(SeqWorker)
    \/ NextOrder(SeqWorker)
    \/ ProcessOrder(SeqWorker)
    \/ SortResults(SeqWorker)
    \/ reset_state

SpecSeq == Init /\ [][NextSeq]_vars

\* The thread serving the request is scheduled and every sleep ends: a handler
\* that can take its next step eventually takes it.
SpecSeqFair ==
    /\ SpecSeq
    /\ WF_vars(ProcessOrder(SeqWorker))
    /\ WF_vars(NextOrder(SeqWorker))
    /\ WF_vars(SortResults(SeqWorker))

\* Concurrent POST /orders and GET /stats requests.
NextStats ==
    \/ Next
    \/ \E w \in Workers : GetStatsReadRevenue(w)
    \/ \E w \in Workers : GetStatsReadCount(w)

SpecStats == Init /\ [][NextStats]_vars

(* ------------------------------ properties ----------------------------- *)
RECURSIVE SumOver(_, _)
SumOver(f, S) ==
    IF S = {} THEN 0
    ELSE LET c == CHOOSE x \in S : TRUE IN f[c] + SumOver(f, S \ {c})

\* The request of worker w was a single order and has returned.
Returned(w) == pc[w] = "done" /\ kind[w] = "single"
\* The response of that request.
response(w) == results[w][1]

\* C1: at every quiescent point order_count equals the number of responses with
\* status ok since the last reset and total_revenue equals the sum of their amounts.
C1_StatsMatchOkResponses ==
    Quiescent =>
        /\ stats.order_count = okCount
        /\ stats.total_revenue = SumOver(okSum, AllCustomers)

\* C2: for a customer whose balance is B after reset, the amounts of the orders
\* that return status ok sum to at most B.
C2_NoOverDeduction ==
    \A c \in AllCustomers : okSum[c] <= get_balance(SeedBalances, c)

\* C3: in every reachable state every customer's balance is at least 0.
C3_BalanceNonNegative ==
    \A c \in DOMAIN balances : balances[c] >= 0

\* Two orders of 100 for customer 5 (balance 100) have both passed the pre-check
\* and one of them has already emptied the account.
C3_Witness ==
    \E w, v \in Workers :
        /\ w # v
        /\ pc[w] = "deduct" /\ order(w).customer_id = 5 /\ order(w).amount = 100
        /\ Returned(v) /\ response(v).status = "ok"
        /\ hist[v].order.customer_id = 5
        /\ balances[5] = 0

\* C4: an order that returns ok after transient failures deducts exactly once:
\* an attempt that fails transiently leaves the balances as they are and no
\* write has been made for the order by then; every change of a balance is a
\* write counted for one order (or a reset); and when an order returns ok
\* exactly one write was made for it.
C4_ExactlyOnceDeduction ==
    [][/\ \A w \in Workers :
            /\ hist'[w].transient_failures > hist[w].transient_failures
                 => balances' = balances /\ hist'[w].balance_writes = 0
            /\ (InFlight(w) /\ pc'[w] = "done" /\ kind[w] = "single"
                    /\ results'[w][1].status = "ok")
                 => hist'[w].balance_writes = 1
       /\ balances' # balances
            => \/ started' = 0
               \/ \E w \in Workers :
                    /\ hist'[w].balance_writes = hist[w].balance_writes + 1
                    /\ \A v \in Workers \ {w} : hist'[v] = hist[v]]_vars

\* An order has returned ok on its third attempt.
C4_Witness ==
    \E w \in Workers :
        /\ Returned(w) /\ response(w).status = "ok"
        /\ hist[w].transient_failures = 2
        /\ hist[w].balance_writes = 1

\* C5: _update_daily_stats is invoked for an order if and only if a
\* deduct_balance call made for it returned success, and at most once.
C5_StatsIffDeductSucceeded ==
    \A w \in Workers :
        /\ hist[w].stats_calls <= 1
        /\ hist[w].stats_calls = 1 => hist[w].deduct_ok >= 1
        /\ (hist[w].deduct_ok >= 1 /\ pc[w] \notin {"stats_read_revenue"})
              => hist[w].stats_calls = 1

\* One order was recorded once after two failed attempts, while another one got
\* success=False from deduct_balance and was not recorded.
C5_Witness ==
    \E w, v \in Workers :
        /\ Returned(w) /\ hist[w].transient_failures = 2 /\ hist[w].stats_calls = 1
        /\ Returned(v) /\ hist[v].deduct_calls >= 1 /\ hist[v].deduct_ok = 0
        /\ response(v).message = Some(Message("Insufficient balance", <<>>, ""))
        /\ hist[v].stats_calls = 0

\* The batch request of worker w has returned.
BatchReturned(w) == pc[w] = "done" /\ kind[w] = "batch"

\* C6: in the result of create_orders_batch every response with priority=true
\* precedes every response with priority=false.
C6_PriorityFirst ==
    \A w \in Workers :
        BatchReturned(w) =>
            \A i, j \in 1 .. Len(results[w]) :
                (i < j /\ results[w][j].priority) => results[w][i].priority

\* C7: in the result of create_orders_batch two responses of equal priority
\* are in the order of their orders in the input list (ids are input positions).
C7_StableOrder ==
    \A w \in Workers :
        BatchReturned(w) =>
            \A i, j \in 1 .. Len(results[w]) :
                (i < j /\ results[w][i].priority = results[w][j].priority)
                    => results[w][i].id < results[w][j].id

\* The batch (1, false), (2, true), (3, false) has returned, reordered.
C7_Witness ==
    \E w \in Workers :
        /\ BatchReturned(w)
        /\ [i \in 1 .. Len(results[w]) |-> results[w][i].id] = <<1, 3, 2>>
        /\ [i \in 1 .. Len(results[w]) |-> results[w][i].priority] = <<FALSE, FALSE, TRUE>>

\* Worker w takes a step of its handler.
Steps(w) == pc'[w] # pc[w] \/ local'[w] # local[w]

\* C8: an order with amount <= 0 returns error "Invalid order amount" without a
\* deduct_balance call and leaves the balances and the stats unchanged.
C8_InvalidAmountRejected ==
    [][\A w \in Workers :
          (pc[w] = "validate" /\ kind[w] = "single" /\ order(w).amount <= 0 /\ Steps(w))
            => /\ pc'[w] = "done"
               /\ results'[w] = <<[id |-> order(w).id, status |-> "error",
                                   priority |-> order(w).priority,
                                   message |-> Some(Message("Invalid order amount", <<>>, "")),
                                   new_balance |-> None]>>
               /\ hist'[w].deduct_calls = 0
               /\ balances' = balances
               /\ stats' = stats]_vars

\* An order of amount 0 has returned while another order was being processed.
C8_Witness ==
    \E w, v \in Workers :
        /\ Returned(w) /\ hist[w].order.amount = 0 /\ response(w).status = "error"
        /\ InFlight(v)

\* C9: an order with a positive amount above the balance get_balance returns
\* (0 for an unknown customer) returns an insufficient-balance error without a
\* deduct_balance call and leaves the balances and the stats unchanged.
C9_PreCheckRejects ==
    [][\A w \in Workers :
          (/\ pc[w] = "precheck" /\ kind[w] = "single" /\ Steps(w)
           /\ order(w).amount > 0
           /\ order(w).amount > (IF order(w).customer_id \in DOMAIN balances
                                 THEN balances[order(w).customer_id] ELSE 0))
            => /\ pc'[w] = "done"
               /\ results'[w][1].status = "error"
               /\ results'[w][1].message # None
               /\ results'[w][1].message[1].fmt = "Insufficient balance: {} < {}"
               /\ results'[w][1].new_balance = None
               /\ hist'[w].deduct_calls = 0
               /\ balances' = balances
               /\ stats' = stats]_vars

\* An order for the unknown customer 6 and an order of 10000 for customer 1
\* have both been rejected by the pre-check.
C9_Witness ==
    \E w, v \in Workers :
        /\ Returned(w) /\ hist[w].order.customer_id = 6
        /\ response(w).message = Some(Message("Insufficient balance: {} < {}", <<0, 50>>, ""))
        /\ Returned(v) /\ hist[v].order.customer_id = 1
        /\ response(v).message = Some(Message("Insufficient balance: {} < {}", <<500, 10000>>, ""))

\* C10: a single order of amount a, processed with no other order in flight
\* for a customer with balance B, that returns ok leaves the balance at B - a
\* and reports new_balance = B - a.
C10_BalanceAfterOk ==
    \A w \in Workers :
        (Returned(w) /\ response(w).status = "ok")
            => /\ hist[w].start_balance # None
               /\ get_balance(balances, hist[w].order.customer_id)
                    = hist[w].start_balance[1] - hist[w].order.amount
               /\ response(w).new_balance
                    = Some(hist[w].start_balance[1] - hist[w].order.amount)

\* The order of 50 for customer 1 (balance 500) has returned ok after two
\* transient failures, and the balance is 450.
C10_Witness ==
    \E w \in Workers :
        /\ Returned(w) /\ response(w).status = "ok"
        /\ hist[w].order.customer_id = 1 /\ hist[w].order.amount = 50
        /\ hist[w].start_balance = Some(500)
        /\ hist[w].transient_failures = 2
        /\ balances[1] = 450
        /\ response(w).new_balance = Some(450)

\* C12: every result of get_stats is a consistent pair: the pair of values the
\* stats had in one state between whole updates during the call.
C12_ConsistentSnapshot ==
    [][\A w \in Workers :
          (pc[w] = "get_stats_count" /\ pc'[w] = "done") => results'[w][1] \in seen[w]]_vars

\* C11: every order ends with exactly one response, ok or error, after at most
\* max_retries deduct_balance calls; when all of them failed transiently the
\* response is an error naming the number of attempts and the last error.
C11_Terminates ==
    /\ [](\A w \in Workers :
            /\ hist[w].deduct_calls <= max_retries
            /\ (InFlight(w) /\ kind[w] = "single") => results[w] = <<>>
            /\ Returned(w) =>
                  /\ Len(results[w]) = 1
                  /\ response(w).status \in {"ok", "error"}
                  /\ hist[w].transient_failures = max_retries =>
                        /\ response(w).status = "error"
                        /\ response(w).message =
                              Some([fmt |-> "Balance service unavailable after {} retries: {}",
                                    args |-> <<max_retries>>,
                                    cause |-> "Balance service temporarily unavailable"]))
    /\ InFlight(SeqWorker) ~> pc[SeqWorker] = "done"

\* An order has returned the error of three transient failures.
C11_Witness ==
    \E w \in Workers :
        /\ Returned(w)
        /\ hist[w].deduct_calls = 3 /\ hist[w].transient_failures = 3
        /\ response(w).status = "error"

\* C13: between two resets no step lowers total_revenue or order_count.
C13_StatsMonotone ==
    [][started' # 0 =>
          /\ stats'.total_revenue >= stats.total_revenue
          /\ stats'.order_count >= stats.order_count]_vars

\* C14: right after reset_state every seeded customer has its seed balance
\* (1: 500, 2: 1000, 3: 250, 4: 750, 5: 100), every other customer reads
\* balance 0, and total_revenue and order_count are 0.
C14_ResetRestoresSeeds ==
    was_reset =>
        /\ get_balance(balances, 1) = 500
        /\ get_balance(balances, 2) = 1000
        /\ get_balance(balances, 3) = 250
        /\ get_balance(balances, 4) = 750
        /\ get_balance(balances, 5) = 100
        /\ \A c \in AllCustomers \ {1, 2, 3, 4, 5} : get_balance(balances, c) = 0
        /\ stats.total_revenue = 0
        /\ stats.order_count = 0

\* reset_state has just run.
C14_Witness == was_reset /\ Quiescent /\ started = 0

\* C15: a deduct_balance call that finds the balance below the amount leaves the
\* balances and the stats unchanged and the order returns status error at once;
\* the order makes no further deduct_balance call and never updates the stats.
C15_InsufficientIsTerminal ==
    /\ [][\A w \in Workers :
            (/\ pc[w] = "deduct_check"
             /\ pc'[w] # "deduct_check"
             /\ local[w].current_balance < order(w).amount) =>
                /\ balances' = balances
                /\ stats' = stats
                /\ pc'[w] \in {"done", "next", "sort"}
                /\ results'[w] = Append(results[w],
                     OrderResponse(order(w), "error",
                         Some(Message("Insufficient balance", <<>>, "")), None))
                /\ hist'[w].deduct_calls = hist[w].deduct_calls
                /\ hist'[w].stats_calls = 0]_vars
    /\ [](\A w \in Workers :
            (/\ Returned(w)
             /\ response(w).message = Some(Message("Insufficient balance", <<>>, ""))
             /\ hist[w].deduct_calls >= 1) =>
                /\ hist[w].deduct_calls = hist[w].transient_failures + 1
                /\ hist[w].deduct_ok = 0
                /\ hist[w].balance_writes = 0
                /\ hist[w].stats_calls = 0)

\* An order passed the pre-check, a concurrent order for the same customer took
\* the money, and deduct_balance refused the first one.
C15_Witness ==
    \E w, v \in Workers :
        /\ w # v /\ Returned(w) /\ Returned(v)
        /\ hist[w].order.customer_id = hist[v].order.customer_id
        /\ response(v).status = "ok"
        /\ hist[w].deduct_calls >= 1 /\ hist[w].deduct_ok = 0
        /\ response(w).message = Some(Message("Insufficient balance", <<>>, ""))

\* C16: a deduct_balance call that raises ConnectionError neither reads nor
\* writes a balance: the step leaves every customer's balance unchanged.
C16_TransientFailureIsAtomic ==
    [][\A w \in Workers :
          hist'[w].transient_failures = hist[w].transient_failures + 1 =>
              /\ balances' = balances
              /\ hist'[w].balance_writes = hist[w].balance_writes
              /\ hist'[w].deduct_ok = hist[w].deduct_ok
              /\ local'[w].current_balance = local[w].current_balance
              /\ local'[w].new_balance = local[w].new_balance]_vars

\* A first deduct_balance call has failed and the order is about to retry,
\* with the customer's balance still at its seed.
C16_Witness ==
    \E w \in Workers :
        /\ pc[w] = "deduct"
        /\ hist[w].deduct_calls = 1 /\ hist[w].transient_failures = 1
        /\ order(w).customer_id \in DOMAIN SeedBalances
        /\ balances[order(w).customer_id] = SeedBalances[order(w).customer_id]

\* C17: whenever no order is in flight, every customer's balance is its seed
\* minus the sum of the amounts of its orders that returned ok since the reset.
C17_BalanceMatchesOkOrders ==
    Quiescent =>
        \A c \in AllCustomers :
            get_balance(balances, c) = get_balance(SeedBalances, c) - okSum[c]

\* C18: between two resets, with orders of positive amounts, no step raises
\* the balance of any customer.
C18_BalancesMonotone ==
    [][started' # 0 =>
          \A c \in AllCustomers :
              get_balance(balances', c) <= get_balance(balances, c)]_vars

\* C19: order_count never exceeds the number of deduct_balance calls that
\* returned success since the reset, and total_revenue never exceeds the sum of
\* their amounts.
C19_StatsNeverOverCount ==
    /\ stats.order_count <= deducted.count
    /\ stats.total_revenue <= deducted.amount

\* Two orders were deducted and have returned, and the stats count one of them.
C19_Witness ==
    /\ Quiescent
    /\ deducted.count = 2
    /\ stats.order_count = 1
    /\ stats.total_revenue < deducted.amount

\* The responses with status ok in the result of worker w.
OkResults(w) == {i \in 1 .. Len(results[w]) : results[w][i].status = "ok"}

\* C20: after a create_orders_batch call served with no other worker running,
\* order_count is the number of ok responses, total_revenue is the sum of their
\* amounts, and every customer's balance is its starting balance minus the sum
\* of its ok amounts, a sum that does not exceed the starting balance.
C20_SequentialBatchTotals ==
    \A w \in Workers :
        BatchReturned(w) =>
            /\ okCount = Cardinality(OkResults(w))
            /\ stats.order_count = Cardinality(OkResults(w))
            /\ stats.total_revenue = SumOver(okSum, AllCustomers)
            /\ \A c \in AllCustomers :
                  /\ get_balance(balances, c) = get_balance(SeedBalances, c) - okSum[c]
                  /\ okSum[c] <= get_balance(SeedBalances, c)

\* A batch of three orders for customer 5 (balance 100) has returned with two
\* ok responses and one error, the balance used up.
C20_Witness ==
    \E w \in Workers :
        /\ BatchReturned(w)
        /\ Len(results[w]) = 3
        /\ Cardinality(OkResults(w)) = 2
        /\ stats = [total_revenue |-> 100, order_count |-> 2]
        /\ balances[5] = 0

====
